---- MODULE Spec2Model ----
(***************************************************************************)
(* Model of the Librarian bot (src/bot.py): the library table, the forum   *)
(* chat with the book messages the bot has published, the operator chat    *)
(* that receives the archival copies, the pinned statistics message, and  *)
(* the handlers process_document, delete_book and update_stats.  A handler *)
(* runs on the event loop: it is atomic from one await to the next, so     *)
(* there is one action per awaited call, made of the call's effect and of  *)
(* the synchronous lines that follow it.                                   *)
(*                                                                         *)
(* Every query and statement goes through the single aiosqlite connection  *)
(* opened in main(), so an executed statement is seen by every handler at  *)
(* once; `library` is the table as that connection sees it, and each       *)
(* add_book / remove_book (execute, then commit) is one step.              *)
(***************************************************************************)
EXTENDS Integers, Sequences, FiniteSets, TLC

\* ------------------------------------------------------------------ bounds
\* Number of distinct sample documents (contents) an upload may carry.
NumContents == 4
\* Number of events (uploads and commands) dispatched in a behaviour.
MaxEvents == 2

\* ------------------------------------------------------- program constants
\* The two operator identities of the handler filters.
Operators == {569356638, 1087968824}
\* The operator chat the archival copies are sent to.
OperatorChat == 569356638
\* Threads excluded by the process_document filter.
ExcludedThreads == {738, 741}

to_cat ==
    (1052 :> "Algebra & Geometry") @@ (1054 :> "Algorithms") @@
    (1056 :> "Book Series") @@ (1058 :> "Business") @@ (1060 :> "Calculus") @@
    (1062 :> "Computer Science") @@ (1064 :> "Data Science") @@
    (1066 :> "Discrete Mathematics") @@ (1068 :> "Economics") @@
    (1070 :> "Linear Algebra") @@ (1072 :> "Linux") @@ (1074 :> "Literature") @@
    (1076 :> "Machine Learning") @@ (1078 :> "Mathematics") @@
    (1080 :> "Maths History") @@ (1082 :> "Maths Problems") @@
    (1084 :> "Miscellaneous") @@ (1086 :> "Physics") @@ (1088 :> "Python") @@
    (1090 :> "R") @@ (1092 :> "SQL") @@ (1094 :> "Statistics") @@
    (1096 :> "Visualizations") @@ (5213 :> "C/C++")

\* ------------------------------------------------------------ environment
\* The asyncio tasks that run handlers: at most two handlers are in progress
\* at a time.
Handlers == {1, 2}
\* Senders of events: the two operators and one other member.
Users == Operators \cup {777}
\* Threads events arrive in: two mapped topics, one topic missing from to_cat,
\* and one topic the upload filter excludes.
Threads == {1052, 1078, 2000, 738}
\* What an awaited Bot API call can do: return, or raise TelegramRetryAfter,
\* TelegramNetworkError or TelegramBadRequest.
Outcomes == {"ok", "retry_after", "network_error", "bad_request"}
ExceptionOf(o) ==
    CASE o = "retry_after" -> "TelegramRetryAfter"
      [] o = "network_error" -> "TelegramNetworkError"
      [] OTHER -> "TelegramBadRequest"

\* Sample documents.  A document is its bytes; the metadata title, the page
\* count and the size are read from the bytes, so they are functions of the
\* content.  Titles are sequences of characters.
Doc(c) ==
    CASE c = 1 -> [title |-> <<"a", ":", "b">>, has_title |-> TRUE,
                   pages |-> 2, size |-> 3, ext |-> "pdf"]
      [] c = 2 -> [title |-> <<" ", "c", " ", ":", " ", "d", ":", "e", " ">>,
                   has_title |-> TRUE, pages |-> 1, size |-> 1, ext |-> "epub"]
      [] c = 3 -> [title |-> <<"a", " ", "b">>, has_title |-> TRUE,
                   pages |-> 1, size |-> 1, ext |-> "pdf"]
      [] c = 4 -> [title |-> <<" ", ":", "b">>, has_title |-> TRUE,
                   pages |-> 1, size |-> 2, ext |-> "pdf"]
      [] c = 5 -> [title |-> <<"a", ":", "b">>, has_title |-> TRUE,
                   pages |-> 0, size |-> 1, ext |-> "epub"]
      [] c = 6 -> [title |-> <<>>, has_title |-> FALSE,
                   pages |-> 1, size |-> 1, ext |-> "pdf"]
      [] c = 7 -> [title |-> <<"a", ":", "b">>, has_title |-> TRUE,
                   pages |-> 0, size |-> 1, ext |-> "pdf"]
      [] OTHER -> [title |-> <<>>, has_title |-> TRUE,
                   pages |-> 1, size |-> 1, ext |-> "pdf"]
Contents == 1..NumContents

\* ---------------------------------------------------------- pure functions
\* get_file_hash: the SHA-256 digest of the bytes; distinct sample contents
\* have distinct digests.
get_file_hash(c) == <<"sha256", c>>

\* Index of the first ":" of s, 0 when there is none.
FirstColon(s) ==
    IF \E i \in 1..Len(s) : s[i] = ":"
    THEN CHOOSE i \in 1..Len(s) : s[i] = ":" /\ \A j \in 1..(i - 1) : s[j] # ":"
    ELSE 0

\* full_title.split(":", 1): one part when there is no ":", else two.
Split1(s) ==
    IF FirstColon(s) = 0 THEN <<s>>
    ELSE <<SubSeq(s, 1, FirstColon(s) - 1), SubSeq(s, FirstColon(s) + 1, Len(s))>>

RECURSIVE LStrip(_)
LStrip(s) == IF s # <<>> /\ Head(s) = " " THEN LStrip(Tail(s)) ELSE s
RECURSIVE RStrip(_)
RStrip(s) ==
    IF s # <<>> /\ s[Len(s)] = " " THEN RStrip(SubSeq(s, 1, Len(s) - 1)) ELSE s
\* str.strip
Strip(s) == RStrip(LStrip(s))

\* A check_exists that finds no row, whatever the table holds.
check_exists_never(db, book_id) == FALSE

\* check_exists: SELECT 1 FROM library WHERE id = ?
check_exists(db, book_id) == \E row \in db : row.id = book_id

\* A table created without PRIMARY KEY on id.
library_constraints_no_primary_key(db, row) ==
    \A r \in db : r.message_id # row.message_id

\* A table created without UNIQUE on message_id.
library_constraints_no_unique(db, row) ==
    \A r \in db : r.id # row.id

\* The constraints of create_library: the INSERT of add_book fails
\* (sqlite3.IntegrityError) on the PRIMARY KEY id and on the UNIQUE message_id.
library_constraints(db, row) ==
    /\ \A r \in db : r.id # row.id
    /\ \A r \in db : r.message_id # row.message_id

\* add_book: the table after a successful INSERT.
add_book(db, row) == db \cup {row}

\* A remove_book whose DELETE has no WHERE clause.
remove_book_unfiltered(db, message_id) == {}

\* remove_book: DELETE FROM library WHERE message_id = ?
remove_book(db, message_id) == {r \in db : r.message_id # message_id}

\* SQL aggregates.  A value that can be NULL is a sequence: <<>> is NULL and
\* <<v>> is v.  SUM over no rows is NULL, COUNT over no rows is 0.
COUNT(rows) == Cardinality(rows)
RECURSIVE SUM(_, _)
SUM(rows, column) ==
    IF rows = {} THEN <<>>
    ELSE LET r == CHOOSE x \in rows : TRUE
             rest == SUM(rows \ {r}, column)
         IN  IF rest = <<>> THEN <<r[column]>> ELSE <<r[column] + rest[1]>>
COALESCE(v, default) == IF v = <<>> THEN default ELSE v[1]

\* The category names in the order ORDER BY cat_name gives them: cat_name is
\* TEXT with the BINARY collation, which compares the bytes of the names.
CategoryOrder ==
    <<"Algebra & Geometry", "Algorithms", "Book Series", "Business", "C/C++",
      "Calculus", "Computer Science", "Data Science", "Discrete Mathematics",
      "Economics", "Linear Algebra", "Linux", "Literature", "Machine Learning",
      "Mathematics", "Maths History", "Maths Problems", "Miscellaneous",
      "Physics", "Python", "R", "SQL", "Statistics", "Visualizations">>
Rank(cat_name) == CHOOSE i \in 1..Len(CategoryOrder) : CategoryOrder[i] = cat_name

\* One row of the GROUP BY cat_name query.
GroupRow(db, c) ==
    [cat_name |-> c,
     book_count |-> COUNT({r \in db : r.cat_name = c}),
     total_pages |-> SUM({r \in db : r.cat_name = c}, "pages")[1],
     total_size |-> SUM({r \in db : r.cat_name = c}, "size")[1]]

\* A per-category query that ends with ORDER BY cat_name DESC.
RECURSIVE per_category_desc(_, _)
per_category_desc(db, names) ==
    IF names = {} THEN <<>>
    ELSE LET c == CHOOSE x \in names : \A y \in names : Rank(x) >= Rank(y)
         IN  <<GroupRow(db, c)>> \o per_category_desc(db, names \ {c})

\* SELECT cat_name, COUNT(*), SUM(pages), SUM(size) FROM library
\* GROUP BY cat_name ORDER BY cat_name, over the groups named.
RECURSIVE per_category(_, _)
per_category(db, names) ==
    IF names = {} THEN <<>>
    ELSE LET c == CHOOSE x \in names : \A y \in names : Rank(x) <= Rank(y)
         IN  <<GroupRow(db, c)>> \o per_category(db, names \ {c})

\* get_library_stats: the five queries on one table.
get_library_stats(db) ==
    [total_books |-> COUNT(db),
     total_pages |-> COALESCE(SUM(db, "pages"), 0),
     total_size |-> COALESCE(SUM(db, "size"), 0),
     total_categories |-> COUNT({r.cat_name : r \in db}),
     per_category |-> per_category(db, {r.cat_name : r \in db})]

\* ------------------------------------------------------------------ state
VARIABLES
    library,          \* the rows of table library
    chat,             \* the book messages the bot has published and not deleted
    operator_chat,    \* the documents sent to the operator chat
    next_message_id,  \* the id the chat gives to the next message
    events,           \* number of events dispatched so far
    pc,               \* per task: the await the handler is at
    ev,               \* per task: the message being handled
    tmp,              \* per task: the local copy at file_path exists
    meta,             \* per task: authors, title, npage, cat_name, size, ext
    book,             \* per task: message_id of the message returned by the send
    exc,              \* per task: the exception that ended the handler
    calls,            \* per task: the awaited calls made so far, with outcome
    cat0,             \* per task: the table when the handler started
    stats,            \* per task: the results of the queries of get_library_stats
    pinned            \* the statistics shown by message 943

vars == <<library, chat, operator_chat, next_message_id, events,
          pc, ev, tmp, meta, book, exc, calls, cat0, stats, pinned>>

NoReply == [kind |-> "none", message_id |-> 0, doc |-> 0]
NoEvent == [cmd |-> "none", thread |-> 0, doc |-> 0, reply |-> NoReply,
            from_operator |-> FALSE]
NoMeta == [authors |-> <<>>, title |-> <<>>, npage |-> 0, cat_name |-> "",
           size |-> 0, ext |-> ""]

NoStats == [total_books |-> 0, total_pages |-> 0, total_size |-> 0,
            total_categories |-> 0, per_category |-> <<>>]

Ended == {"idle", "done", "raised"}

\* reply_to_message of a message posted in topic t: the topic's service message
\* (forum_topic_created; its id is the thread id), a message of the bot that is
\* in the topic, or a message of a member (no document).
ReplyContexts(t) ==
    {[kind |-> "topic", message_id |-> t, doc |-> 0]}
    \cup {[kind |-> "bot", message_id |-> m.message_id, doc |-> m.doc] :
            m \in {x \in chat : x.thread = t}}
    \cup {[kind |-> "user", message_id |-> t + 1, doc |-> 0]}

\* The bot starts on the library.db and the chat of its earlier runs: the
\* table is empty, or holds the book of document 1 published in topic 1052
\* as message 6000.
ShelvedRow ==
    [id |-> get_file_hash(1), cat_name |-> "Algebra & Geometry", pages |-> 2,
     title |-> <<"b">>, authors |-> <<"a">>, size |-> 3,
     message_id |-> 6000, file_id |-> <<"doc", 1>>]
ShelvedMessage == [message_id |-> 6000, thread |-> 1052, doc |-> 1]

Init ==
    /\ \/ library = {} /\ chat = {}
       \/ library = {ShelvedRow} /\ chat = {ShelvedMessage}
    /\ operator_chat = {}
    /\ next_message_id = 6001
    /\ events = 0
    /\ pc = [h \in Handlers |-> "idle"]
    /\ ev = [h \in Handlers |-> NoEvent]
    /\ tmp = [h \in Handlers |-> FALSE]
    /\ meta = [h \in Handlers |-> NoMeta]
    /\ book = [h \in Handlers |-> 0]
    /\ exc = [h \in Handlers |-> "none"]
    /\ calls = [h \in Handlers |-> <<>>]
    /\ cat0 = [h \in Handlers |-> {}]
    /\ stats = [h \in Handlers |-> NoStats]
    /\ pinned = NoStats

\* ---------------------------------------------------------------- helpers
Called(h, api, o) ==
    calls' = [calls EXCEPT ![h] = Append(@, [api |-> api, outcome |-> o])]

\* Two calls logged in one step: an awaited call and a synchronous one after it.
Called2(h, api1, o1, api2, o2) ==
    calls' = [calls EXCEPT ![h] = @ \o <<[api |-> api1, outcome |-> o1],
                                         [api |-> api2, outcome |-> o2]>>]

\* An exception leaves the handler: nothing after the raising line runs.
Raise(h, e) ==
    /\ pc' = [pc EXCEPT ![h] = "raised"]
    /\ exc' = [exc EXCEPT ![h] = e]

Goto(h, label) ==
    /\ pc' = [pc EXCEPT ![h] = label]
    /\ exc' = exc

\* os.remove(file_path), and the handler returns.
OsRemove(h) ==
    /\ tmp' = [tmp EXCEPT ![h] = FALSE]
    /\ Goto(h, "done")

\* The dispatcher starts a handler for a message, on the first task that is
\* free.  The locals of the handlers that have ended are dropped.
Fresh(h, g, f, new, none) ==
    IF g = h THEN new ELSE IF pc[g] \in Ended THEN none ELSE f[g]

Startable(h) ==
    /\ pc[h] \in Ended
    /\ \A g \in Handlers : g < h => pc[g] \notin Ended
    /\ events < MaxEvents

Dispatch(h, e, label) ==
    /\ Startable(h)
    /\ events' = events + 1
    /\ pc' = [g \in Handlers |-> Fresh(h, g, pc, label, "idle")]
    /\ ev' = [g \in Handlers |-> Fresh(h, g, ev, e, NoEvent)]
    /\ tmp' = [g \in Handlers |-> IF g = h THEN FALSE ELSE tmp[g]]
    /\ meta' = [g \in Handlers |-> Fresh(h, g, meta, NoMeta, NoMeta)]
    /\ book' = [g \in Handlers |-> Fresh(h, g, book, 0, 0)]
    /\ exc' = [g \in Handlers |-> Fresh(h, g, exc, "none", "none")]
    /\ calls' = [g \in Handlers |-> Fresh(h, g, calls, <<>>, <<>>)]
    /\ cat0' = [g \in Handlers |-> Fresh(h, g, cat0, library, {})]
    /\ stats' = [g \in Handlers |-> Fresh(h, g, stats, NoStats, NoStats)]
    /\ UNCHANGED <<library, chat, operator_chat, next_message_id, pinned>>

\* The row add_book is called with.
BookRow(h) ==
    [id |-> get_file_hash(ev[h].doc), cat_name |-> meta[h].cat_name,
     pages |-> meta[h].npage, title |-> meta[h].title,
     authors |-> meta[h].authors, size |-> meta[h].size,
     message_id |-> book[h], file_id |-> <<"doc", ev[h].doc>>]

\* ------------------------------------------------------- process_document
\* The filter of process_document: a document, in a topic other than 738 and
\* 741, from an operator.
process_document(h, u, t, c, r) ==
    /\ Startable(h)
    /\ u \in Operators
    /\ t \notin ExcludedThreads
    /\ r \in ReplyContexts(t)
    /\ Dispatch(h, [cmd |-> "document", thread |-> t, doc |-> c, reply |-> r,
                    from_operator |-> u \in Operators],
                "get_file")

\* file = await bot.get_file(...); unique_file_id = get_file_hash(file_path)
GetFile(h, o) ==
    /\ pc[h] = "get_file"
    /\ Called(h, "get_file", o)
    /\ IF o = "ok"
       THEN /\ tmp' = [tmp EXCEPT ![h] = TRUE]
            /\ Goto(h, "delete_message")
       ELSE /\ tmp' = tmp
            /\ Raise(h, ExceptionOf(o))
    /\ UNCHANGED <<library, chat, operator_chat, next_message_id, events,
                   ev, meta, book, cat0, stats, pinned>>

\* await message.delete()
DeleteMessage(h, o) ==
    /\ pc[h] = "delete_message"
    /\ Called(h, "delete_message", o)
    /\ IF o = "ok" THEN Goto(h, "check_exists") ELSE Raise(h, ExceptionOf(o))
    /\ UNCHANGED <<library, chat, operator_chat, next_message_id, events,
                   ev, tmp, meta, book, cat0, stats, pinned>>

\* An extraction that looks the category up with a default, to_cat.get(t, ...).
Extract_default_category(c, t) ==
    IF ~Doc(c).has_title THEN [error |-> "AttributeError", meta |-> NoMeta]
    ELSE IF Len(Split1(Doc(c).title)) # 2 THEN [error |-> "ValueError", meta |-> NoMeta]
    ELSE IF Doc(c).ext = "pdf" /\ Doc(c).pages = 0
         THEN [error |-> "IndexError", meta |-> NoMeta]
    ELSE [error |-> "none",
          meta |-> [authors |-> Strip(Split1(Doc(c).title)[1]),
                    title |-> Strip(Split1(Doc(c).title)[2]),
                    npage |-> Doc(c).pages,
                    cat_name |-> IF t \in DOMAIN to_cat THEN to_cat[t] ELSE "Unsorted",
                    size |-> Doc(c).size, ext |-> Doc(c).ext]]

\* An extraction that splits with full_title.partition(":"): a title without
\* ":" gives empty authors and the whole text as title.
Extract_partition(c, t) ==
    IF ~Doc(c).has_title THEN [error |-> "AttributeError", meta |-> NoMeta]
    ELSE IF t \notin DOMAIN to_cat THEN [error |-> "KeyError", meta |-> NoMeta]
    ELSE IF Doc(c).ext = "pdf" /\ Doc(c).pages = 0
         THEN [error |-> "IndexError", meta |-> NoMeta]
    ELSE [error |-> "none",
          meta |-> [authors |-> IF Len(Split1(Doc(c).title)) = 2
                                THEN Strip(Split1(Doc(c).title)[1]) ELSE <<>>,
                    title |-> Strip(Split1(Doc(c).title)[Len(Split1(Doc(c).title))]),
                    npage |-> Doc(c).pages, cat_name |-> to_cat[t],
                    size |-> Doc(c).size, ext |-> Doc(c).ext]]

\* The synchronous lines 212-233 on document c posted in topic t: the
\* exception they raise ("none" when they run through) and the locals they
\* set.  metadata.get('title') is None: AttributeError on split; split gives
\* one part: ValueError on unpacking; the topic is no key of to_cat: KeyError;
\* get_thumbnail reads doc[0] of a pdf without pages: IndexError.
Extract(c, t) ==
    IF ~Doc(c).has_title THEN [error |-> "AttributeError", meta |-> NoMeta]
    ELSE IF Len(Split1(Doc(c).title)) # 2 THEN [error |-> "ValueError", meta |-> NoMeta]
    ELSE IF t \notin DOMAIN to_cat THEN [error |-> "KeyError", meta |-> NoMeta]
    ELSE IF Doc(c).ext = "pdf" /\ Doc(c).pages = 0
         THEN [error |-> "IndexError", meta |-> NoMeta]
    ELSE [error |-> "none",
          meta |-> [authors |-> Strip(Split1(Doc(c).title)[1]),
                    title |-> Strip(Split1(Doc(c).title)[2]),
                    npage |-> Doc(c).pages, cat_name |-> to_cat[t],
                    size |-> Doc(c).size, ext |-> Doc(c).ext]]

\* The branch taken at lines 235 / 251 for a reply context.
Branch(r) ==
    IF r.kind = "topic" THEN "answer_document"
    ELSE IF r.kind = "bot" THEN "remove_book"
    ELSE "os_remove"

\* exists = await check_exists(db, unique_file_id); if exists: os.remove and
\* return.  Otherwise lines 212-233 extract the metadata, and the branch on
\* message.reply_to_message makes the next call; a reply to a member's message
\* takes neither branch and goes to os.remove.
CheckExists(h) ==
    /\ pc[h] = "check_exists"
    /\ IF check_exists(library, get_file_hash(ev[h].doc))
       THEN /\ Called(h, "check_exists", "ok")
            /\ OsRemove(h)
            /\ meta' = meta
       ELSE /\ Called2(h, "check_exists", "ok",
                       "extract", Extract(ev[h].doc, ev[h].thread).error)
            /\ IF Extract(ev[h].doc, ev[h].thread).error # "none"
               THEN /\ Raise(h, Extract(ev[h].doc, ev[h].thread).error)
                    /\ UNCHANGED <<meta, tmp>>
               ELSE /\ meta' = [meta EXCEPT ![h] = Extract(ev[h].doc, ev[h].thread).meta]
                    /\ IF Branch(ev[h].reply) = "os_remove"
                       THEN OsRemove(h)
                       ELSE Goto(h, Branch(ev[h].reply)) /\ tmp' = tmp
    /\ UNCHANGED <<library, chat, operator_chat, next_message_id, events,
                   ev, book, cat0, stats, pinned>>

\* book = await message.answer_document(...) inside the try of the NEW branch.
AnswerDocument(h, o) ==
    /\ pc[h] = "answer_document"
    /\ Called(h, "answer_document", o)
    /\ IF o = "ok"
       THEN /\ chat' = chat \cup {[message_id |-> next_message_id,
                                   thread |-> ev[h].thread, doc |-> ev[h].doc]}
            /\ next_message_id' = next_message_id + 1
            /\ book' = [book EXCEPT ![h] = next_message_id]
            /\ Goto(h, "add_book")
            /\ tmp' = tmp
       ELSE /\ UNCHANGED <<chat, next_message_id, book>>
            /\ IF o = "retry_after" THEN Goto(h, "sleep") /\ tmp' = tmp
               ELSE IF o = "network_error" THEN OsRemove(h)
               ELSE Raise(h, ExceptionOf(o)) /\ tmp' = tmp
    /\ UNCHANGED <<library, operator_chat, events, ev, meta, cat0, stats, pinned>>

\* await add_book(...) of either branch, then os.remove;
\* sqlite3.IntegrityError is not caught.
AddBook(h) ==
    /\ pc[h] = "add_book"
    /\ IF library_constraints(library, BookRow(h))
       THEN /\ library' = add_book(library, BookRow(h))
            /\ Called(h, "add_book", "ok")
            /\ OsRemove(h)
       ELSE /\ library' = library
            /\ Called(h, "add_book", "IntegrityError")
            /\ Raise(h, "IntegrityError")
            /\ tmp' = tmp
    /\ UNCHANGED <<chat, operator_chat, next_message_id, events,
                   ev, meta, book, cat0, stats, pinned>>

\* except TelegramRetryAfter: await asyncio.sleep(e.retry_after); the handler
\* then leaves the try statement and goes to os.remove.
Sleep(h) ==
    /\ pc[h] = "sleep"
    /\ Called(h, "sleep", "ok")
    /\ OsRemove(h)
    /\ UNCHANGED <<library, chat, operator_chat, next_message_id, events,
                   ev, meta, book, cat0, stats, pinned>>

\* A replacement branch without the remove_book call.
RemoveBook_skipped(h) ==
    /\ pc[h] = "remove_book"
    /\ library' = library
    /\ Called(h, "remove_book", "ok")
    /\ Goto(h, "send_document")
    /\ UNCHANGED <<chat, operator_chat, next_message_id, events,
                   ev, tmp, meta, book, cat0, stats, pinned>>

\* await remove_book(db, message.reply_to_message.message_id)
RemoveBook(h) ==
    /\ pc[h] = "remove_book"
    /\ library' = remove_book(library, ev[h].reply.message_id)
    /\ Called(h, "remove_book", "ok")
    /\ Goto(h, "send_document")
    /\ UNCHANGED <<chat, operator_chat, next_message_id, events,
                   ev, tmp, meta, book, cat0, stats, pinned>>

\* await message.bot.send_document(chat_id=569356638, ...): the old document
\* with the old caption.
SendDocument(h, o) ==
    /\ pc[h] = "send_document"
    /\ Called(h, "send_document", o)
    /\ IF o = "ok"
       THEN /\ operator_chat' = operator_chat \cup
                    {[chat_id |-> OperatorChat, document |-> ev[h].reply.doc,
                      about |-> ev[h].reply.message_id, text |-> "modified"]}
            /\ Goto(h, "edit_message_media")
       ELSE /\ operator_chat' = operator_chat
            /\ Raise(h, ExceptionOf(o))
    /\ UNCHANGED <<library, chat, next_message_id, events,
                   ev, tmp, meta, book, cat0, stats, pinned>>

\* book = await message.bot.edit_message_media(...): a message that is gone
\* cannot be edited (TelegramBadRequest).
EditMessageMedia(h, o) ==
    /\ pc[h] = "edit_message_media"
    /\ o = "ok" => \E m \in chat : m.message_id = ev[h].reply.message_id
    /\ Called(h, "edit_message_media", o)
    /\ IF o = "ok"
       THEN /\ chat' = {IF m.message_id = ev[h].reply.message_id
                        THEN [m EXCEPT !.doc = ev[h].doc] ELSE m : m \in chat}
            /\ book' = [book EXCEPT ![h] = ev[h].reply.message_id]
            /\ Goto(h, "add_book")
       ELSE /\ UNCHANGED <<chat, book>>
            /\ Raise(h, ExceptionOf(o))
    /\ UNCHANGED <<library, operator_chat, next_message_id, events,
                   ev, tmp, meta, cat0, stats, pinned>>

\* ------------------------------------------------------------ delete_book
\* A delete_book registered with Command("delete") alone, without the
\* F.from_user.id filter.
delete_book_unfiltered(h, u, t, r) ==
    /\ Startable(h)
    /\ r \in ReplyContexts(t)
    /\ Dispatch(h, [cmd |-> "delete", thread |-> t, doc |-> 0, reply |-> r,
                    from_operator |-> u \in Operators],
                "d_delete_message")

\* The filter of delete_book: the command /delete from an operator.
delete_book(h, u, t, r) ==
    /\ Startable(h)
    /\ u \in Operators
    /\ r \in ReplyContexts(t)
    /\ Dispatch(h, [cmd |-> "delete", thread |-> t, doc |-> 0, reply |-> r,
                    from_operator |-> u \in Operators],
                "d_delete_message")

\* await message.delete()
DeleteCommandMessage(h, o) ==
    /\ pc[h] = "d_delete_message"
    /\ Called(h, "delete_message", o)
    /\ IF o = "ok" THEN Goto(h, "d_remove_book") ELSE Raise(h, ExceptionOf(o))
    /\ UNCHANGED <<library, chat, operator_chat, next_message_id, events,
                   ev, tmp, meta, book, cat0, stats, pinned>>

\* await remove_book(db, message.reply_to_message.message_id)
DeleteRemoveBook(h) ==
    /\ pc[h] = "d_remove_book"
    /\ library' = remove_book(library, ev[h].reply.message_id)
    /\ Called(h, "remove_book", "ok")
    /\ Goto(h, "d_send_document")
    /\ UNCHANGED <<chat, operator_chat, next_message_id, events,
                   ev, tmp, meta, book, cat0, stats, pinned>>

\* await message.bot.send_document(chat_id=569356638, ...);
\* message.reply_to_message.document is None for a message without a document.
DeleteSendDocument(h, o) ==
    /\ pc[h] = "d_send_document"
    /\ IF ev[h].reply.doc = 0
       THEN /\ o = "ok"
            /\ Called(h, "reply_document", "AttributeError")
            /\ operator_chat' = operator_chat
            /\ Raise(h, "AttributeError")
       ELSE /\ Called(h, "send_document", o)
            /\ IF o = "ok"
               THEN /\ operator_chat' = operator_chat \cup
                        {[chat_id |-> OperatorChat, document |-> ev[h].reply.doc,
                          about |-> ev[h].reply.message_id, text |-> "removed"]}
                    /\ Goto(h, "d_delete_reply")
               ELSE /\ operator_chat' = operator_chat
                    /\ Raise(h, ExceptionOf(o))
    /\ UNCHANGED <<library, chat, next_message_id, events,
                   ev, tmp, meta, book, cat0, stats, pinned>>

\* await message.reply_to_message.delete(): a message that is gone cannot be
\* deleted (TelegramBadRequest).
DeleteReplyMessage(h, o) ==
    /\ pc[h] = "d_delete_reply"
    /\ o = "ok" => \E m \in chat : m.message_id = ev[h].reply.message_id
    /\ Called(h, "delete_reply", o)
    /\ IF o = "ok"
       THEN /\ chat' = {m \in chat : m.message_id # ev[h].reply.message_id}
            /\ Goto(h, "done")
       ELSE /\ chat' = chat
            /\ Raise(h, ExceptionOf(o))
    /\ UNCHANGED <<library, operator_chat, next_message_id, events,
                   ev, tmp, meta, book, cat0, stats, pinned>>

\* ----------------------------------------------------------- update_stats
\* The filter of update_stats: the command /update, from any member.  The
\* handler reads neither the topic nor the replied-to message.
update_stats(h, u) ==
    /\ Startable(h)
    /\ Dispatch(h, [cmd |-> "update", thread |-> 0, doc |-> 0, reply |-> NoReply,
                    from_operator |-> u \in Operators],
                "u_delete_message")

\* await message.delete()
UpdateDeleteMessage(h, o) ==
    /\ pc[h] = "u_delete_message"
    /\ Called(h, "delete_message", o)
    /\ IF o = "ok" THEN Goto(h, "total_books") ELSE Raise(h, ExceptionOf(o))
    /\ UNCHANGED <<library, chat, operator_chat, next_message_id, events,
                   ev, tmp, meta, book, cat0, stats, pinned>>

\* stats = await get_library_stats(db): five queries, each awaited, each on
\* the table as it is when the query runs.  The label of a query is the key
\* its result is returned under.
NextQuery ==
    [total_books |-> "total_pages", total_pages |-> "total_size",
     total_size |-> "total_categories", total_categories |-> "per_category",
     per_category |-> "edit_message_text"]

GetLibraryStats(h) ==
    /\ pc[h] \in DOMAIN NextQuery
    /\ stats' = [stats EXCEPT ![h][pc[h]] = get_library_stats(library)[pc[h]]]
    /\ Called(h, pc[h], "ok")
    /\ Goto(h, NextQuery[pc[h]])
    /\ UNCHANGED <<library, chat, operator_chat, next_message_id, events,
                   ev, tmp, meta, book, cat0, pinned>>

\* An edit that is not inside "with suppress(TelegramBadRequest)".
EditMessageText_unsuppressed(h, o) ==
    /\ pc[h] = "edit_message_text"
    /\ Called(h, "edit_message_text", o)
    /\ IF o = "ok"
       THEN pinned' = stats[h] /\ Goto(h, "done")
       ELSE pinned' = pinned /\ Raise(h, ExceptionOf(o))
    /\ UNCHANGED <<library, chat, operator_chat, next_message_id, events,
                   ev, tmp, meta, book, cat0, stats>>

\* with suppress(TelegramBadRequest): await bot.edit_message_text(message_id=943,
\* text=stats_text).  TelegramBadRequest (message to edit not found, message
\* is not modified) is swallowed and the handler returns; the other
\* exceptions leave the handler.
EditMessageText(h, o) ==
    /\ pc[h] = "edit_message_text"
    /\ Called(h, "edit_message_text", o)
    /\ IF o = "ok"
       THEN pinned' = stats[h] /\ Goto(h, "done")
       ELSE /\ pinned' = pinned
            /\ IF o = "bad_request" THEN Goto(h, "done") ELSE Raise(h, ExceptionOf(o))
    /\ UNCHANGED <<library, chat, operator_chat, next_message_id, events,
                   ev, tmp, meta, book, cat0, stats>>

\* ---------------------------------------------------------- specifications
\* One step of the handler running on task h.
HandlerNext(h) ==
    \/ \E t \in Threads, c \in Contents, u \in Users :
          \E r \in ReplyContexts(t) : process_document(h, u, t, c, r)
    \/ \E o \in Outcomes : GetFile(h, o)
    \/ \E o \in Outcomes : DeleteMessage(h, o)
    \/ CheckExists(h)
    \/ \E o \in Outcomes : AnswerDocument(h, o)
    \/ AddBook(h)
    \/ Sleep(h)
    \/ RemoveBook(h)
    \/ \E o \in Outcomes : SendDocument(h, o)
    \/ \E o \in Outcomes : EditMessageMedia(h, o)
    \/ \E t \in Threads, u \in Users :
          \E r \in ReplyContexts(t) : delete_book(h, u, t, r)
    \/ \E o \in Outcomes : DeleteCommandMessage(h, o)
    \/ DeleteRemoveBook(h)
    \/ \E o \in Outcomes : DeleteSendDocument(h, o)
    \/ \E o \in Outcomes : DeleteReplyMessage(h, o)
    \/ \E u \in Users : update_stats(h, u)
    \/ \E o \in Outcomes : UpdateDeleteMessage(h, o)
    \/ GetLibraryStats(h)
    \/ \E o \in Outcomes : EditMessageText(h, o)

\* Handlers run as asyncio tasks and interleave at their awaits; here each
\* task is given one event, so two handlers overlap in every possible way.
Next ==
    \E h \in Handlers :
        (pc[h] \in Ended => events < Cardinality(Handlers)) /\ HandlerNext(h)
Spec == Init /\ [][Next]_vars

\* Events handled one at a time: a handler starts only when the handler of
\* the event before has ended.
SeqNext == \E h \in Handlers : (\A g \in Handlers \ {h} : pc[g] \in Ended) /\ HandlerNext(h)
SeqSpec == Init /\ [][SeqNext]_vars

\* ------------------------------------------------------------------ claims
Upload(h) == ev[h].cmd = "document"
Over(h) == pc[h] \in {"done", "raised"}
\* The handler on task h has made a call of one of the apis.
Made(h, apis) == \E i \in 1..Len(calls[h]) : calls[h][i].api \in apis
\* The calls of the apis the handler on task h has made, by position.
CallsOf(h, apis) == {i \in 1..Len(calls[h]) : calls[h][i].api \in apis}
Sends == {"answer_document", "send_document", "edit_message_media"}
Mutations == {"add_book", "remove_book"}
CategoryNames == {to_cat[t] : t \in DOMAIN to_cat}
\* The table held the content of the upload on task h when its handler started.
HeldAtStart(h) == \E r \in cat0[h] : r.id = get_file_hash(ev[h].doc)

\* C1: whatever uploads, replacements and removals have been handled, in
\* whatever order and overlap, no two rows of the table have the same content
\* identity (id).
C1_OneRowPerContent ==
    \A r1 \in library, r2 \in library : r1.id = r2.id => r1 = r2

\* Two overlapping uploads of the same bytes have both passed check_exists and
\* published; the second INSERT has failed and one row holds the content.
C1_Witness ==
    \E h \in Handlers, g \in Handlers :
        /\ h # g /\ Upload(h) /\ Upload(g) /\ ev[h].doc = ev[g].doc
        /\ pc[g] = "done" /\ Made(g, {"add_book"})
        /\ exc[h] = "IntegrityError"
        /\ Cardinality({r \in library : r.id = get_file_hash(ev[h].doc)}) = 1

\* C2: in every state, the states between the awaits of a replacement
\* included, no two rows of the table have the same message_id.
C2_UniqueCanonicalRef ==
    \A r1 \in library, r2 \in library : r1.message_id = r2.message_id => r1 = r2

\* Two overlapping replacements of one message: the second INSERT under that
\* message_id has failed, and one row holds the message_id.
C2_Witness ==
    \E h \in Handlers :
        /\ Upload(h) /\ ev[h].reply.kind = "bot"
        /\ exc[h] = "IntegrityError"
        /\ Cardinality({r \in library : r.message_id = ev[h].reply.message_id}) = 1

\* C3 (as claimed): when an upload of content that is not in the table has
\* taken the replacement branch and its handler has ended, the table has as
\* many rows as when the handler started, and a row with the new content
\* identity carries the message_id of the replied-to message.
C3_ReplacementKeepsCount ==
    \A h \in Handlers :
        (Upload(h) /\ Over(h) /\ Made(h, {"remove_book"}))
        => /\ Cardinality(library) = Cardinality(cat0[h])
           /\ \E r \in library : /\ r.id = get_file_hash(ev[h].doc)
                                 /\ r.message_id = ev[h].reply.message_id

\* C4 (as claimed): when the handler of an upload has ended and one of its
\* sends (publish, archive, edit) failed with a network error, the table is
\* the table the handler started with.
C4_FailedSendLeavesCatalog ==
    \A h \in Handlers :
        (Upload(h) /\ Over(h)
         /\ \E i \in CallsOf(h, Sends) : calls[h][i].outcome = "network_error")
        => library = cat0[h]

\* C5 (as claimed): when the publish of a new upload was rate-limited and the
\* handler has ended, it has slept once and called the publish twice; the
\* table has gained one row if the second publish returned and none otherwise.
FirstPublishRateLimited(h) ==
    /\ Upload(h) /\ ev[h].reply.kind = "topic"
    /\ CallsOf(h, {"answer_document"}) # {}
    /\ \A i \in CallsOf(h, {"answer_document"}) :
          (\A j \in CallsOf(h, {"answer_document"}) : i <= j)
          => calls[h][i].outcome = "retry_after"

C5_RetryOnceAfterWait ==
    \A h \in Handlers :
        (Over(h) /\ FirstPublishRateLimited(h))
        => /\ Cardinality(CallsOf(h, {"sleep"})) = 1
           /\ Cardinality(CallsOf(h, {"answer_document"})) = 2
           /\ \A i \in CallsOf(h, {"answer_document"}) :
                 (\E j \in CallsOf(h, {"answer_document"}) : j < i)
                 => IF calls[h][i].outcome = "ok"
                    THEN /\ cat0[h] \subseteq library
                         /\ Cardinality(library) = Cardinality(cat0[h]) + 1
                    ELSE library = cat0[h]

\* C6: the handler of an upload whose content identity is in the table when
\* it starts never extracts the metadata, never publishes, edits or archives
\* a document and never inserts or deletes a row, whatever the upload replies
\* to: the table stays as it was.
C6_DuplicateIsInert ==
    \A h \in Handlers :
        (Upload(h) /\ HeldAtStart(h))
        => /\ ~Made(h, {"extract"} \cup Sends \cup Mutations)
           /\ library = cat0[h]

\* An upload of bytes the table holds, sent as a reply to a message of the
\* bot, has been handled to its end.
C6_Witness ==
    \E h \in Handlers :
        /\ Upload(h) /\ HeldAtStart(h)
        /\ ev[h].reply.kind = "bot" /\ pc[h] = "done" /\ ~tmp[h]

\* C7: the handler of an upload posted in a topic that is no key of to_cat
\* makes no send and no insert or delete and ends normally only for content
\* the table already held; and the cat_name of every row is a value of to_cat.
C7_UnmappedThreadRejected ==
    /\ \A r \in library : r.cat_name \in CategoryNames
    /\ \A h \in Handlers :
          (Upload(h) /\ ev[h].thread \notin DOMAIN to_cat)
          => /\ ~Made(h, Sends \cup Mutations)
             /\ library = cat0[h]
             /\ pc[h] = "done" => HeldAtStart(h)

\* An upload with well-formed metadata posted in a topic that is no key of
\* to_cat has ended with KeyError, the table holding a row.
C7_Witness ==
    \E h \in Handlers :
        /\ Upload(h) /\ ev[h].thread \notin DOMAIN to_cat
        /\ exc[h] = "KeyError" /\ library # {}

\* The metadata title of document c has no ":".
NoSeparator(c) == \A i \in 1..Len(Doc(c).title) : Doc(c).title[i] # ":"

\* C8: the handler of an upload whose metadata title has no ":" never ends
\* normally (at the extraction it raises), and the table keeps the rows, and
\* so the number of rows, it had when the handler started.
C8_NoSeparatorRejected ==
    \A h \in Handlers :
        (Upload(h) /\ NoSeparator(ev[h].doc))
        => /\ pc[h] # "done"
           /\ Made(h, {"extract"}) => exc[h] \in {"ValueError", "AttributeError"}
           /\ ~Made(h, Sends \cup Mutations)
           /\ library = cat0[h]
           /\ Cardinality(library) = Cardinality(cat0[h])

\* An upload whose title has no ":" has been rejected at the unpacking, the
\* table holding a row.
C8_Witness ==
    \E h \in Handlers :
        /\ Upload(h) /\ NoSeparator(ev[h].doc)
        /\ exc[h] = "ValueError" /\ library # {} /\ library = cat0[h]

\* C9 (as claimed): when the handler of an upload has ended with a rejection
\* (malformed metadata or a topic that is no key of to_cat), it has sent a
\* report to the chat the upload came from; a handler that ended normally has
\* sent none.  The handler has ended, so no later step of it can send one.
Rejected(h) ==
    /\ Upload(h) /\ pc[h] = "raised"
    /\ exc[h] \in {"ValueError", "AttributeError", "KeyError"}

C9_RejectionReported ==
    \A h \in Handlers :
        /\ Rejected(h) => Made(h, {"send_message", "answer", "reply"})
        /\ (Upload(h) /\ pc[h] = "done") => ~Made(h, {"send_message", "answer", "reply"})

\* C10 (as claimed): while a replacement is between its awaits, the replied-to
\* message_id has a row in the table if it had one when the handler started.
InReplacement(h) ==
    /\ Upload(h) /\ ev[h].reply.kind = "bot"
    /\ pc[h] \in {"remove_book", "send_document", "edit_message_media", "add_book"}

C10_NoGapInReplacement ==
    \A h \in Handlers :
        (InReplacement(h) /\ \E r \in cat0[h] : r.message_id = ev[h].reply.message_id)
        => \E r \in library : r.message_id = ev[h].reply.message_id

\* C11: remove_book is idempotent.  For the table of every state and every
\* message_id a removal can be asked for: removing twice gives the table that
\* removing once gives; removing a message_id that no row has gives the table
\* back as it was; the rows of other message_ids stay and no row is added.
\* And a /delete handler whose remove_book found no row has had the call
\* return normally, the table being the one the handler started on.
Refs ==
    {r.message_id : r \in library} \cup {m.message_id : m \in chat}
    \cup Threads \cup {t + 1 : t \in Threads}

C11_RemoveIdempotent ==
    /\ \A m \in Refs :
        /\ remove_book(remove_book(library, m), m) = remove_book(library, m)
        /\ (\A r \in library : r.message_id # m) => remove_book(library, m) = library
        /\ \A r \in library : r.message_id # m => r \in remove_book(library, m)
        /\ \A r \in remove_book(library, m) : r \in library /\ r.message_id # m
    /\ \A h \in Handlers :
        (/\ ev[h].cmd = "delete" /\ Made(h, {"remove_book"})
         /\ \A r \in cat0[h] : r.message_id # ev[h].reply.message_id)
        => /\ \A i \in CallsOf(h, {"remove_book"}) : calls[h][i].outcome = "ok"
           /\ exc[h] # "IntegrityError"
           /\ library = cat0[h]

\* A /delete in reply to a message that has no row has gone through
\* remove_book on a table that holds a row, and the row is still there.
C11_Witness ==
    \E h \in Handlers :
        /\ ev[h].cmd = "delete" /\ Made(h, {"remove_book"})
        /\ cat0[h] # {}
        /\ \A r \in cat0[h] : r.message_id # ev[h].reply.message_id
        /\ library = cat0[h]

\* C12: get_library_stats on the empty table returns 0 books, 0 pages, 0 size,
\* 0 categories and an empty per-category list.  On the table of every state
\* its totals are the number of rows, the sum of pages and the sum of size
\* over all rows and the number of distinct category names; the per-category
\* list has one entry per category that has a row, with the count and sums of
\* the rows of that category, in ascending order of category name.  An /update
\* handler that has run the five queries holds exactly these results and has
\* raised no error in them.
RECURSIVE Total(_, _)
Total(rows, column) ==
    IF rows = {} THEN 0
    ELSE LET r == CHOOSE x \in rows : TRUE
         IN  r[column] + Total(rows \ {r}, column)

Aggregated(db, s) ==
    /\ s.total_books = Cardinality(db)
    /\ s.total_pages = Total(db, "pages")
    /\ s.total_size = Total(db, "size")
    /\ s.total_categories = Cardinality({r.cat_name : r \in db})
    /\ {s.per_category[i].cat_name : i \in 1..Len(s.per_category)}
            = {r.cat_name : r \in db}
    /\ \A i \in 1..Len(s.per_category) :
          LET g == s.per_category[i]
              rows == {r \in db : r.cat_name = g.cat_name}
          IN  /\ g.book_count = Cardinality(rows)
              /\ g.total_pages = Total(rows, "pages")
              /\ g.total_size = Total(rows, "size")
    /\ \A i \in 1..Len(s.per_category), j \in 1..Len(s.per_category) :
          i < j => Rank(s.per_category[i].cat_name) < Rank(s.per_category[j].cat_name)

C12_Aggregate ==
    /\ get_library_stats({}) = NoStats
    /\ Aggregated(library, get_library_stats(library))
    /\ \A h \in Handlers :
        (ev[h].cmd = "update" /\ Made(h, {"per_category"}))
        => /\ Aggregated(library, stats[h])
           /\ library = {} => stats[h] = NoStats
           /\ \A i \in CallsOf(h, DOMAIN NextQuery) : calls[h][i].outcome = "ok"

\* An /update handler has run its queries on a table with books of two
\* categories: the list has two entries.
C12_Witness ==
    \E h \in Handlers :
        /\ ev[h].cmd = "update" /\ Made(h, {"per_category"})
        /\ Len(stats[h].per_category) = 2
        /\ stats[h].total_books = 2

\* C13: when the edit of message 943 in an /update handler has failed with
\* TelegramBadRequest (the answer of the Bot API when the message to edit is
\* not found or cannot be edited), the handler has returned normally, no
\* exception has left it, and the table is the one the handler started on; an
\* /update handler makes no insert and no delete at all.
EditRefused(h) ==
    /\ ev[h].cmd = "update"
    /\ \E i \in CallsOf(h, {"edit_message_text"}) : calls[h][i].outcome = "bad_request"

C13_FailedEditIsSilent ==
    \A h \in Handlers :
        /\ EditRefused(h)
           => pc[h] = "done" /\ exc[h] = "none" /\ library = cat0[h]
        /\ ev[h].cmd = "update" => ~Made(h, Mutations)

\* An /update handler on a table that holds a row has had its edit refused
\* and has returned.
C13_Witness ==
    \E h \in Handlers :
        /\ EditRefused(h) /\ pc[h] = "done"
        /\ library # {} /\ stats[h].total_books = Cardinality(library)

\* C14: a /delete handler runs only for a message whose sender is one of the
\* two operators.  So whenever a /delete handler has made a call that changes
\* something (remove_book, the archive send, the deletion of the replied-to
\* message) or the table differs from the one it started on, the sender is an
\* operator; a /delete from any other member starts no handler and so leaves
\* the table and the replied-to message as they are.
C14_OnlyOperatorsRemove ==
    \A h \in Handlers :
        /\ ev[h].cmd = "delete" => ev[h].from_operator
        /\ (/\ ev[h].cmd = "delete"
            /\ \/ Made(h, {"remove_book", "send_document", "delete_reply"})
               \/ library # cat0[h])
           => ev[h].from_operator

\* A /delete of an operator has removed the row of the replied-to message and
\* deleted the message.
C14_Witness ==
    \E h \in Handlers :
        /\ ev[h].cmd = "delete" /\ ev[h].from_operator /\ pc[h] = "done"
        /\ \E r \in cat0[h] : r.message_id = ev[h].reply.message_id
        /\ \A r \in library : r.message_id # ev[h].reply.message_id
        /\ \A m \in chat : m.message_id # ev[h].reply.message_id

\* C15 (as claimed): whenever a handler, of a replacement or of a /delete, has
\* deleted the row of the replied-to message, the archive copy of that
\* message's document has been delivered to the operator chat.
Destroyed(h) ==
    /\ ev[h].cmd \in {"document", "delete"}
    /\ Made(h, {"remove_book"})
    /\ \E r \in cat0[h] : r.message_id = ev[h].reply.message_id

Archived(h) ==
    \E a \in operator_chat :
        /\ a.chat_id = OperatorChat
        /\ a.about = ev[h].reply.message_id /\ a.document = ev[h].reply.doc

C15_ArchivedWhenDestroyed ==
    \A h \in Handlers : Destroyed(h) => Archived(h)

\* C16: with events handled one at a time, whenever a handler is about to
\* insert, on the NEW branch or on the replacement branch, no row of the
\* table has the id of the new content and no row has the message_id the new
\* row is inserted under; and no insert has failed with IntegrityError.
C16_InsertNeverCollides ==
    \A h \in Handlers :
        /\ pc[h] = "add_book"
           => /\ \A r \in library : r.id # get_file_hash(ev[h].doc)
              /\ \A r \in library : r.message_id # book[h]
        /\ exc[h] # "IntegrityError"
        /\ \A i \in CallsOf(h, {"add_book"}) : calls[h][i].outcome = "ok"

\* A replacement is about to insert under the message_id whose row the table
\* held when the handler started.
C16_Witness ==
    \E h \in Handlers :
        /\ Upload(h) /\ ev[h].reply.kind = "bot" /\ pc[h] = "add_book"
        /\ book[h] = ev[h].reply.message_id
        /\ \E r \in cat0[h] : r.message_id = book[h]

\* C17 (as claimed): every row of the table has a non-empty title, non-empty
\* authors and a page count above 0; and the handler of an upload whose
\* metadata gives an empty title or empty authors after trimming, or a page
\* count of 0 or less, makes no send and no insert.
Blank(c) ==
    /\ Doc(c).has_title
    /\ Len(Split1(Doc(c).title)) = 2
    /\ \/ Strip(Split1(Doc(c).title)[1]) = <<>>
       \/ Strip(Split1(Doc(c).title)[2]) = <<>>
       \/ Doc(c).pages <= 0

C17_EntriesWellFormed ==
    /\ \A r \in library : r.title # <<>> /\ r.authors # <<>> /\ r.pages > 0
    /\ \A h \in Handlers :
        (Upload(h) /\ Blank(ev[h].doc)) => ~Made(h, Sends \cup {"add_book"})

\* C18 (as claimed): when the handler of an upload has ended in one of the
\* outcomes the claim lists (the content was a duplicate, the upload was
\* rejected, the row was inserted, or a send failed), the local copy at
\* file_path no longer exists.
Duplicate(h) == HeldAtStart(h) /\ Made(h, {"check_exists"})
FailedSend(h) == \E i \in CallsOf(h, Sends) : calls[h][i].outcome # "ok"
Committed(h) == \E i \in CallsOf(h, {"add_book"}) : calls[h][i].outcome = "ok"

C18_TempCopyDiscarded ==
    \A h \in Handlers :
        (/\ Upload(h) /\ Over(h)
         /\ Duplicate(h) \/ Rejected(h) \/ Committed(h) \/ FailedSend(h))
        => ~tmp[h]

\* C19 (as claimed): with events handled one at a time, whenever no handler
\* is running (every event dispatched so far has been handled to its end,
\* normally or by an exception), the message_ids of the rows of the table are
\* exactly the message_ids of the book messages the bot has published and
\* not deleted.
Quiescent == \A h \in Handlers : pc[h] \in Ended

C19_CatalogMatchesChat ==
    Quiescent => {r.message_id : r \in library} = {m.message_id : m \in chat}

\* C20 (as claimed): when the handlers of two NEW uploads of the same bytes
\* overlap, at most one of them has published a book message for the content,
\* and neither has ended on a failed insert.
Published(h) ==
    \E i \in CallsOf(h, {"answer_document"}) : calls[h][i].outcome = "ok"

C20_RacingUploadsPublishOnce ==
    \A h \in Handlers, g \in Handlers :
        (/\ h # g /\ Upload(h) /\ Upload(g)
         /\ ev[h].doc = ev[g].doc
         /\ ev[h].reply.kind = "topic" /\ ev[g].reply.kind = "topic")
        => /\ ~(Published(h) /\ Published(g))
           /\ exc[h] # "IntegrityError"

====
